---- MODULE Spec2Model ----
(***************************************************************************)
(* Trace viewer (src/unnamed/part_000): loading of trace files into the    *)
(* session tables, the per-browser UI (show), and the replay of an         *)
(* action's snapshot (renderSnapshot binding, _ensureContext,              *)
(* _readResource, _renderSnapshot, _postprocessSnapshotFrame).             *)
(*                                                                         *)
(* Strings that the code takes apart (URLs) are sequences of symbols:      *)
(*   "h"  the scheme and host "https://x" in serialized spelling           *)
(*   "H"  the same scheme and host spelled "HTTPS://X" (parses, and is     *)
(*        serialized by URL.toString() as "h")                             *)
(*   "/", "/y", "/z", "/c", "/q"  paths;  "#" the fragment delimiter;      *)
(*   "a", "b"  fragment text.                                              *)
(* A string that does not start with a scheme does not parse as a URL.     *)
(***************************************************************************)
EXTENDS Integers, Sequences, FiniteSets, TLC

\* ------------------------------------------------------------------ bounds

\* Number of requests, besides the root document's, a replayed page issues.
MaxRequests == 2
\* Number of renderSnapshot binding calls in the concurrent-replay specification.
MaxReplays == 2
\* Length of the candidate lists the matcher is probed with.
MaxCand == 3
\* Number of trace files showTraceViewer is given in the load-and-show specification.
MaxLoads == 3

\* ------------------------------------------------------------------ URLs

uRoot == <<"h", "/">>
uY    == <<"h", "/y">>
uYa   == <<"h", "/y", "#", "a">>
uYb   == <<"h", "/y", "#", "b">>
uYH   == <<"H", "/y", "#", "a">>
uZ    == <<"h", "/z">>
uC    == <<"h", "/c">>
uQ    == <<"h", "/q">>
uRel  == <<"/y", "#", "a">>
uRelB == <<"/y", "#", "b">>

Urls == {uRoot, uY, uYa, uYb, uYH, uZ, uC, uQ, uRel, uRelB}

\* new URL(url) throws unless the string starts with a scheme.
Parses(url) == Len(url) > 0 /\ url[1] \in {"h", "H"}

\* Position of the first "#" of a string, or Len + 1 when there is none.
RECURSIVE HashPos(_, _)
HashPos(url, i) ==
  IF i > Len(url) THEN i
  ELSE IF url[i] = "#" THEN i ELSE HashPos(url, i + 1)

\* u.hash = '': the fragment and its delimiter are dropped.
StripFragment(url) == SubSeq(url, 1, HashPos(url, 1) - 1)

\* u.toString(): the serialized spelling of scheme and host.
Serialize(url) == [i \in 1..Len(url) |-> IF url[i] = "H" THEN "h" ELSE url[i]]

\* A lookup key that keeps the request url as it is.
removeHashRaw(url) == url

removeHash(url) ==
  IF Parses(url) THEN Serialize(StripFragment(url)) ELSE url

\* String.prototype.endsWith
EndsWith(s, suffix) ==
  /\ Len(suffix) <= Len(s)
  /\ SubSeq(s, Len(s) - Len(suffix) + 1, Len(s)) = suffix

\* ------------------------------------------------------------------ JS maps

\* Map.get / Map.has / Map.set on a map kept as a function on its keys.
MapHas(map, k) == k \in DOMAIN map
MapSet(map, k, v) == [x \in (DOMAIN map) \cup {k} |-> IF x = k THEN v ELSE map[x]]
EmptyMap == [x \in {} |-> 0]

\* ------------------------------------------------------------------ events

NoHeaders == << >>

Event(type, contextId, browserName, pageId, frameId, url, sha1, contentType, headers, action, snapshot) ==
  [type |-> type, contextId |-> contextId, browserName |-> browserName,
   pageId |-> pageId, frameId |-> frameId, url |-> url, sha1 |-> sha1,
   contentType |-> contentType, responseHeaders |-> headers,
   action |-> action, snapshot |-> snapshot]

ContextCreated(contextId, browserName) ==
  Event("context-created", contextId, browserName, "", "", << >>, "", "", NoHeaders, "", "")
PageCreated(contextId, pageId) ==
  Event("page-created", contextId, "", pageId, "", << >>, "", "", NoHeaders, "", "")
Resource(contextId, frameId, url, sha1, contentType, headers) ==
  Event("resource", contextId, "", "", frameId, url, sha1, contentType, headers, "", "")
\* snapshot is the sha1 of the action's snapshot, "" when the action has none.
Action(contextId, pageId, action, snapshot) ==
  Event("action", contextId, "", pageId, "", << >>, "", "", NoHeaders, action, snapshot)

\* A line of a trace file: blank (empty after trim), malformed, or one event.
Blank == [kind |-> "blank", event |-> ContextCreated("", "")]
Malformed == [kind |-> "malformed", event |-> ContextCreated("", "")]
Json(event) == [kind |-> "json", event |-> event]

HdrPlain == << <<"X-Served", "1">> >>
HdrCors  == << <<"Access-Control-Allow-Origin", "https://x">>, <<"X-Served", "1">>, <<"X-Served", "2">> >>

\* The trace files on disk.
FileLines(traceFile) ==
  CASE traceFile = "t1" ->
         << Json(ContextCreated("cA", "chromium")),
            Blank,
            Json(PageCreated("cA", "p1")),
            Json(Resource("cB", "f1", uY, "hB", "text/b", HdrPlain)),
            Json(Resource("cA", "f2", uY, "h1", "text/1", HdrPlain)),
            Json(Resource("cA", "f2", uY, "h2", "text/2", HdrCors)),
            Json(Resource("cA", "f1", uY, "h3", "text/3", HdrCors)),
            Json(Resource("cA", "f1", uRoot, "h4", "text/4", HdrPlain)),
            Json(Action("cA", "p1", "click", "s1")),
            Json(Action("cA", "p1", "fill", "s2")),
            Blank >>
    [] traceFile = "t2" ->
         << Json(ContextCreated("cB", "firefox")),
            Json(PageCreated("cB", "p2")),
            Json(Resource("cB", "f2", uYa, "h5", "text/5", HdrPlain)),
            Json(Action("cB", "p2", "goto", "s1")),
            Blank >>
    [] traceFile = "t3" ->
         << Json(ContextCreated("cB", "webkit")),
            Malformed,
            Json(Resource("cB", "f1", uZ, "h6", "text/6", HdrPlain)) >>
    [] traceFile = "t4" ->
         << Json(Action("cA", "", "press", "s1")) >>
    [] traceFile = "t5" ->
         << Json(ContextCreated("cC", "chromium")),
            Json(ContextCreated("cD", "firefox")),
            Json(ContextCreated("cE", "chromium")),
            Blank,
            Json(Action("cD", "", "goto", "")),
            Json(Resource("cC", "f1", uY, "h7", "text/7", HdrPlain)),
            Json(Action("cC", "", "click", "")),
            Json(Action("cE", "", "fill", "")),
            Json(Action("cC", "", "press", "")) >>
    [] traceFile = "t6" ->
         << Json(ContextCreated("cA", "chromium")),
            Json(PageCreated("cA", "p1")),
            Json(Action("cA", "p1", "click", "s1")),
            Json(Action("cA", "p1", "fill", "s2")),
            Json(Action("cA", "p1", "press", "s3")) >>
    [] OTHER -> << >>

TraceFiles == {"t1", "t2", "t3", "t4", "t5", "t6"}

\* The trace file lists showTraceViewer is called with.
TraceFileLists ==
  { <<"t1">>, <<"t1", "t2">>, <<"t1", "t3">>, <<"t2", "t4">> }

\* ------------------------------------------------------------------ snapshots

FrameSnapshot(frameId, url, html, resourceOverrides) ==
  [frameId |-> frameId, url |-> url, html |-> html, resourceOverrides |-> resourceOverrides]
Override(url, sha1) == [url |-> url, sha1 |-> sha1]

\* The snapshot files of the trace storage directory, by sha1 (parsed).
SnapshotFile(sha1) ==
  CASE sha1 = "s1" ->
         [frames |-> << FrameSnapshot("f1", uRoot, "rootHtml",
                                      << Override(uY, "ho"), Override(uZ, "hz") >>),
                        FrameSnapshot("f2", uC, "childHtml", << >>) >>]
    [] sha1 = "s2" ->
         [frames |-> << FrameSnapshot("f1", uRoot, "rootHtml", << >>),
                        FrameSnapshot("f2", uRoot, "dupHtml",
                                      << Override(uY, ""), Override(uY, "ho") >>) >>]
    [] sha1 = "s3" ->
         [frames |-> << FrameSnapshot("f1", uRoot, "rootHtml", << >>),
                        FrameSnapshot("f2", << >>, "blankHtml", << >>) >>]
    [] OTHER -> [frames |-> << >>]

\* Live frames of the page a snapshot's html produces: url and child frames.
LiveFrame(url, childFrames) == [url |-> url, childFrames |-> childFrames]
LiveFrames(sha1) ==
  CASE sha1 = "s1" -> [f \in {"main", "k1", "k2"} |->
                         CASE f = "main" -> LiveFrame(uRoot, <<"k1", "k2">>)
                           [] f = "k1" -> LiveFrame(uC, << >>)
                           [] OTHER -> LiveFrame(uQ, << >>)]
    [] sha1 = "s3" -> [f \in {"main", "k1", "k2", "k3"} |->
                         CASE f = "main" -> LiveFrame(uRoot, <<"k1", "k3">>)
                           [] f = "k1" -> LiveFrame(uC, <<"k2">>)
                           [] f = "k2" -> LiveFrame(uQ, << >>)
                           [] OTHER -> LiveFrame(uRoot, << >>)]
    [] OTHER -> [f \in {"main", "k1", "k2"} |->
                         CASE f = "main" -> LiveFrame(uRoot, <<"k1">>)
                           [] f = "k1" -> LiveFrame(uRoot, <<"k2">>)
                           [] OTHER -> LiveFrame(uC, << >>)]

\* ------------------------------------------------------------------ state

VARIABLES
  traceFiles,            \* showTraceViewer: the trace files still to load
  mainPc,                \* showTraceViewer: "load", "show", "idle" or "failed"
  traces,                \* TraceViewer._traces
  browserNames,          \* TraceViewer._browserNames, in insertion order
  resourceEventsByUrl,   \* TraceViewer._resourceEventsByUrl
  contextEventById,      \* TraceViewer._contextEventById
  contextById,           \* TraceViewer._contextById: contextId -> live context
  ui,                    \* browserName -> the contextData its UI page was built from
  liveContexts,          \* the browser contexts created so far, in creation order
  replay,                \* the renderSnapshot binding calls
  probe                  \* inputs and result of a matcher probe

vars == << traceFiles, mainPc, traces, browserNames, resourceEventsByUrl,
           contextEventById, contextById, ui, liveContexts, replay, probe >>

session == << traceFiles, mainPc, traces, browserNames, resourceEventsByUrl,
              contextEventById, ui >>

\* ------------------------------------------------------------------ load

\* traceContent.split('\n').map(trim).filter(line => !!line)
NonBlank(lines) == SelectSeq(lines, LAMBDA l : l.kind # "blank")

\* JSON.parse throws on a malformed line.
ParseFails(lines) == \E k \in 1..Len(lines) : lines[k].kind = "malformed"

\* A parse that keeps the blank lines.
ParseLinesKeepBlank(lines) == [k \in 1..Len(lines) |-> lines[k].event]

ParseLines(lines) == [k \in 1..Len(NonBlank(lines)) |-> NonBlank(lines)[k].event]

SetAdd(seq, x) == IF \E k \in 1..Len(seq) : seq[k] = x THEN seq ELSE Append(seq, x)

\* A loop body that puts the resource event at the front of its list.
IndexEventUnshift(tables, event) ==
  LET names == IF event.type = "context-created"
               THEN SetAdd(tables.browserNames, event.browserName)
               ELSE tables.browserNames
      byUrl == IF event.type = "resource"
               THEN LET old == IF MapHas(tables.resourceEventsByUrl, event.url)
                               THEN tables.resourceEventsByUrl[event.url]
                               ELSE << >>
                    IN MapSet(tables.resourceEventsByUrl, event.url, << event >> \o old)
               ELSE tables.resourceEventsByUrl
      byId  == IF event.type = "context-created"
               THEN MapSet(tables.contextEventById, event.contextId, event)
               ELSE tables.contextEventById
  IN [browserNames |-> names, resourceEventsByUrl |-> byUrl, contextEventById |-> byId]

\* The body of load's loop for one event, on the three session tables.
IndexEvent(tables, event) ==
  LET names == IF event.type = "context-created"
               THEN SetAdd(tables.browserNames, event.browserName)
               ELSE tables.browserNames
      byUrl == IF event.type = "resource"
               THEN LET old == IF MapHas(tables.resourceEventsByUrl, event.url)
                               THEN tables.resourceEventsByUrl[event.url]
                               ELSE << >>
                    IN MapSet(tables.resourceEventsByUrl, event.url, Append(old, event))
               ELSE tables.resourceEventsByUrl
      byId  == IF event.type = "context-created"
               THEN MapSet(tables.contextEventById, event.contextId, event)
               ELSE tables.contextEventById
  IN [browserNames |-> names, resourceEventsByUrl |-> byUrl, contextEventById |-> byId]

RECURSIVE IndexEvents(_, _, _)
IndexEvents(tables, events, k) ==
  IF k > Len(events) THEN tables
  ELSE IndexEvents(IndexEvent(tables, events[k]), events, k + 1)

\* A load that parses each line inside the indexing loop.
LoadPartial ==
  /\ mainPc = "load"
  /\ traceFiles # << >>
  /\ LET traceFile == Head(traceFiles)
         lines == FileLines(traceFile)
         bad == IF ParseFails(lines)
                THEN CHOOSE k \in 1..Len(lines) :
                       /\ lines[k].kind = "malformed"
                       /\ \A j \in 1..(k - 1) : lines[j].kind # "malformed"
                ELSE Len(lines) + 1
         events == ParseLines(SubSeq(lines, 1, bad - 1))
         tables == IndexEvents([browserNames |-> browserNames,
                                resourceEventsByUrl |-> resourceEventsByUrl,
                                contextEventById |-> contextEventById],
                               events, 1)
     IN /\ browserNames' = tables.browserNames
        /\ resourceEventsByUrl' = tables.resourceEventsByUrl
        /\ contextEventById' = tables.contextEventById
        /\ IF ParseFails(lines)
           THEN /\ mainPc' = "failed"
                /\ UNCHANGED << traceFiles, traces >>
           ELSE /\ traces' = Append(traces, [traceFile |-> traceFile, events |-> events])
                /\ traceFiles' = Tail(traceFiles)
                /\ mainPc' = IF Tail(traceFiles) = << >> THEN "show" ELSE "load"
  /\ UNCHANGED << contextById, ui, liveContexts, replay, probe >>

\* load(traceFile) for the next file of the list; a parse error ends showTraceViewer.
Load ==
  /\ mainPc = "load"
  /\ traceFiles # << >>
  /\ LET traceFile == Head(traceFiles)
         lines == FileLines(traceFile)
     IN IF ParseFails(lines)
        THEN /\ mainPc' = "failed"
             /\ UNCHANGED << traceFiles, traces, browserNames, resourceEventsByUrl,
                             contextEventById >>
        ELSE LET events == ParseLines(lines)
                 tables == IndexEvents([browserNames |-> browserNames,
                                        resourceEventsByUrl |-> resourceEventsByUrl,
                                        contextEventById |-> contextEventById],
                                       events, 1)
             IN /\ browserNames' = tables.browserNames
                /\ resourceEventsByUrl' = tables.resourceEventsByUrl
                /\ contextEventById' = tables.contextEventById
                /\ traces' = Append(traces, [traceFile |-> traceFile, events |-> events])
                /\ traceFiles' = Tail(traceFiles)
                /\ mainPc' = IF Tail(traceFiles) = << >> THEN "show" ELSE "load"
  /\ UNCHANGED << contextById, ui, liveContexts, replay, probe >>

\* ------------------------------------------------------------------ show

\* A tree builder without the browser-name filter.
RECURSIVE BuildContextDataNoFilter(_, _, _, _, _, _)
BuildContextDataNoFilter(allTraces, byId, browserName, t, e, acc) ==
  IF t > Len(allTraces) THEN [crashed |-> FALSE, data |-> acc.data]
  ELSE IF e > Len(allTraces[t].events)
       THEN BuildContextDataNoFilter(allTraces, byId, browserName, t + 1, 1,
                             [contextId |-> 0, data |-> acc.data])
  ELSE LET event == allTraces[t].events[e]
       IN IF event.type # "action"
          THEN BuildContextDataNoFilter(allTraces, byId, browserName, t, e + 1, acc)
          ELSE IF ~MapHas(byId, event.contextId)
               THEN [crashed |-> TRUE, data |-> acc.data]
          ELSE LET contextEvent == byId[event.contextId]
               IN IF FALSE
                  THEN BuildContextDataNoFilter(allTraces, byId, browserName, t, e + 1, acc)
                  ELSE LET fresh == ~MapHas(acc.data, contextEvent.contextId)
                           counter == IF fresh THEN acc.contextId + 1 ELSE acc.contextId
                           old == IF fresh
                                  THEN [label |-> << allTraces[t].traceFile, counter >>,
                                        actions |-> << >>]
                                  ELSE acc.data[contextEvent.contextId]
                           new == [old EXCEPT !.actions = Append(@, event)]
                       IN BuildContextDataNoFilter(allTraces, byId, browserName, t, e + 1,
                             [contextId |-> counter,
                              data |-> MapSet(acc.data, contextEvent.contextId, new)])

\* A tree builder whose counter also advances on actions of other browsers.
RECURSIVE BuildContextDataCountsAll(_, _, _, _, _, _)
BuildContextDataCountsAll(allTraces, byId, browserName, t, e, acc) ==
  IF t > Len(allTraces) THEN [crashed |-> FALSE, data |-> acc.data]
  ELSE IF e > Len(allTraces[t].events)
       THEN BuildContextDataCountsAll(allTraces, byId, browserName, t + 1, 1,
                             [contextId |-> 0, data |-> acc.data])
  ELSE LET event == allTraces[t].events[e]
       IN IF event.type # "action"
          THEN BuildContextDataCountsAll(allTraces, byId, browserName, t, e + 1, acc)
          ELSE IF ~MapHas(byId, event.contextId)
               THEN [crashed |-> TRUE, data |-> acc.data]
          ELSE LET contextEvent == byId[event.contextId]
               IN IF contextEvent.browserName # browserName
                  THEN BuildContextDataCountsAll(allTraces, byId, browserName, t, e + 1,
                                                 [acc EXCEPT !.contextId = @ + 1])
                  ELSE LET fresh == ~MapHas(acc.data, contextEvent.contextId)
                           counter == IF fresh THEN acc.contextId + 1 ELSE acc.contextId
                           old == IF fresh
                                  THEN [label |-> << allTraces[t].traceFile, counter >>,
                                        actions |-> << >>]
                                  ELSE acc.data[contextEvent.contextId]
                           new == [old EXCEPT !.actions = Append(@, event)]
                       IN BuildContextDataCountsAll(allTraces, byId, browserName, t, e + 1,
                             [contextId |-> counter,
                              data |-> MapSet(acc.data, contextEvent.contextId, new)])

\* The two loops of show that build contextData; contextId is the per-trace counter.
\* Reading browserName of a missing context event throws.
RECURSIVE BuildContextData(_, _, _, _, _, _)
BuildContextData(allTraces, byId, browserName, t, e, acc) ==
  IF t > Len(allTraces) THEN [crashed |-> FALSE, data |-> acc.data]
  ELSE IF e > Len(allTraces[t].events)
       THEN BuildContextData(allTraces, byId, browserName, t + 1, 1,
                             [contextId |-> 0, data |-> acc.data])
  ELSE LET event == allTraces[t].events[e]
       IN IF event.type # "action"
          THEN BuildContextData(allTraces, byId, browserName, t, e + 1, acc)
          ELSE IF ~MapHas(byId, event.contextId)
               THEN [crashed |-> TRUE, data |-> acc.data]
          ELSE LET contextEvent == byId[event.contextId]
               IN IF contextEvent.browserName # browserName
                  THEN BuildContextData(allTraces, byId, browserName, t, e + 1, acc)
                  ELSE LET fresh == ~MapHas(acc.data, contextEvent.contextId)
                           counter == IF fresh THEN acc.contextId + 1 ELSE acc.contextId
                           old == IF fresh
                                  THEN [label |-> << allTraces[t].traceFile, counter >>,
                                        actions |-> << >>]
                                  ELSE acc.data[contextEvent.contextId]
                           new == [old EXCEPT !.actions = Append(@, event)]
                       IN BuildContextData(allTraces, byId, browserName, t, e + 1,
                             [contextId |-> counter,
                              data |-> MapSet(acc.data, contextEvent.contextId, new)])

\* The function show evaluates in the UI page, over all traces: a section per context
\* and page (the two maps are per trace), and a button per action with a snapshot.
\* Appending to a missing parent section throws; the buttons made so far stay.
RECURSIVE UiButtons(_, _, _, _)
UiButtons(allTraces, t, e, acc) ==
  IF t > Len(allTraces) THEN [crashed |-> FALSE, buttons |-> acc.buttons]
  ELSE IF e > Len(allTraces[t].events)
       THEN UiButtons(allTraces, t + 1, 1,
                      [contextSections |-> {}, pageSections |-> {}, buttons |-> acc.buttons])
  ELSE LET event == allTraces[t].events[e]
       IN CASE event.type = "context-created" ->
                 UiButtons(allTraces, t, e + 1,
                           [acc EXCEPT !.contextSections = @ \cup {event.contextId}])
            [] event.type = "page-created" ->
                 IF event.contextId \notin acc.contextSections
                 THEN [crashed |-> TRUE, buttons |-> acc.buttons]
                 ELSE UiButtons(allTraces, t, e + 1,
                                [acc EXCEPT !.pageSections = @ \cup {event.pageId}])
            [] event.type = "action" ->
                 LET hasParent == IF event.pageId # ""
                                  THEN event.pageId \in acc.pageSections
                                  ELSE event.contextId \in acc.contextSections
                 IN IF ~hasParent
                    THEN [crashed |-> TRUE, buttons |-> acc.buttons]
                    ELSE UiButtons(allTraces, t, e + 1,
                                   IF event.snapshot # ""
                                   THEN [acc EXCEPT !.buttons = Append(@, event)]
                                   ELSE acc)
            [] OTHER -> UiButtons(allTraces, t, e + 1, acc)

\* show(browserName) for the next browser name of the set: the browser is launched and
\* the binding exposed, then contextData is built and the UI page filled.
Show ==
  /\ mainPc = "show"
  /\ LET todo == SelectSeq(browserNames, LAMBDA b : ~MapHas(ui, b))
     IN IF todo = << >>
        THEN /\ mainPc' = "idle"
             /\ UNCHANGED ui
        ELSE LET built == BuildContextData(traces, contextEventById, Head(todo), 1, 1,
                                           [contextId |-> 0, data |-> EmptyMap])
                 page == IF built.crashed
                         THEN [crashed |-> TRUE, buttons |-> << >>]
                         ELSE UiButtons(traces, 1, 1,
                                        [contextSections |-> {}, pageSections |-> {},
                                         buttons |-> << >>])
             IN /\ ui' = MapSet(ui, Head(todo),
                                [crashed |-> page.crashed, data |-> built.data,
                                 buttons |-> page.buttons])
                /\ mainPc' = IF page.crashed THEN "failed" ELSE "show"
  /\ UNCHANGED << traceFiles, traces, browserNames, resourceEventsByUrl,
                  contextEventById, contextById, liveContexts, replay, probe >>

\* ------------------------------------------------------------------ replay state

Invs == 1..MaxReplays

uBlank == <<"about:blank">>

NoResource == Event("none", "", "", "", "", << >>, "", "", NoHeaders, "", "")
NoResponse == [contentType |-> "", body |-> "", headers |-> EmptyMap]

\* One intercepted request (a Route) and what the handler did with it so far.
Route(url, frameSrc) ==
  [url |-> url, frameSrc |-> frameSrc,
   escaped |-> FALSE,          \* issued while no interceptor was installed
   reading |-> FALSE,          \* the handler is suspended in _readResource
   resource |-> NoResource,    \* the matched resource event
   sha1 |-> "",                \* the file _readResource reads
   nReads |-> 0,               \* calls of fsReadFileAsync in _readResource
   nFulfill |-> 0,             \* calls of route.fulfill
   nAbort |-> 0,               \* calls of route.abort
   response |-> NoResponse,    \* the argument of route.fulfill
   settled |-> FALSE]          \* the promise of fulfill or abort has resolved

\* One call of the renderSnapshot binding.
IdleReplay ==
  [pc |-> "idle", browser |-> "", contextId |-> "", snapshot |-> "",
   context |-> 0, frameBySrc |-> EmptyMap, routeInstalled |-> FALSE,
   routes |-> << >>, intercepted |-> << >>, unknownUrls |-> {}, log |-> << >>,
   stack |-> << >>, joined |-> << >>]

\* ------------------------------------------------------------------ _renderSnapshot

\* frameBySrc: a later frame snapshot with the same url replaces an earlier one.
RECURSIVE FrameBySrc(_, _, _)
FrameBySrc(frames, k, map) ==
  IF k > Len(frames) THEN map
  ELSE FrameBySrc(frames, k + 1, MapSet(map, frames[k].url, frames[k]))

\* A matching loop without the context check.
RECURSIVE MatchLoopAnyContext(_, _, _, _, _)
MatchLoopAnyContext(candidates, k, contextId, frameId, resource) ==
  IF k > Len(candidates) THEN resource
  ELSE IF resource # 0 /\ candidates[k].frameId # frameId
       THEN MatchLoopAnyContext(candidates, k + 1, contextId, frameId, resource)
  ELSE IF candidates[k].frameId = frameId
       THEN k
       ELSE MatchLoopAnyContext(candidates, k + 1, contextId, frameId, k)

\* A matching loop that stops at the first candidate of the context.
RECURSIVE MatchLoopFirstWins(_, _, _, _, _)
MatchLoopFirstWins(candidates, k, contextId, frameId, resource) ==
  IF k > Len(candidates) THEN resource
  ELSE IF candidates[k].contextId # contextId
       THEN MatchLoopFirstWins(candidates, k + 1, contextId, frameId, resource)
       ELSE k

\* The matching loop of the route handler, over the candidate list; `resource` is the
\* position of the candidate held so far (0 for null). Returns the position chosen.
RECURSIVE MatchLoop(_, _, _, _, _)
MatchLoop(candidates, k, contextId, frameId, resource) ==
  IF k > Len(candidates) THEN resource
  ELSE LET resourceEvent == candidates[k]
       IN IF resourceEvent.contextId # contextId
          THEN MatchLoop(candidates, k + 1, contextId, frameId, resource)
          ELSE IF resource # 0 /\ resourceEvent.frameId # frameId
               THEN MatchLoop(candidates, k + 1, contextId, frameId, resource)
          ELSE IF resourceEvent.frameId = frameId
               THEN k
               ELSE MatchLoop(candidates, k + 1, contextId, frameId, k)

\* this._resourceEventsByUrl.get(removeHash(url)) || []
Candidates(byUrl, url) ==
  IF MapHas(byUrl, removeHash(url)) THEN byUrl[removeHash(url)] ELSE << >>

\* frameSnapshot.resourceOverrides.find(o => o.url === url): its position, or 0.
FindOverride(resourceOverrides, url) ==
  IF \E k \in 1..Len(resourceOverrides) : resourceOverrides[k].url = url
  THEN CHOOSE k \in 1..Len(resourceOverrides) :
         /\ resourceOverrides[k].url = url
         /\ \A j \in 1..(k - 1) : resourceOverrides[j].url # url
  ELSE 0

\* overrideSha1 of the handler: undefined ("") when the frame has no override.
OverrideSha1(frameSnapshot, url) ==
  LET k == FindOverride(frameSnapshot.resourceOverrides, url)
  IN IF k = 0 THEN "" ELSE frameSnapshot.resourceOverrides[k].sha1

\* A read that ignores the override.
ReadSha1Event(event, overrideSha1) == event.sha1

\* The file _readResource reads: overrideSha1 || event.sha1
ReadSha1(event, overrideSha1) == IF overrideSha1 # "" THEN overrideSha1 ELSE event.sha1

\* A headers object in which a recorded header replaces the CORS header.
RECURSIVE HeadersObjectCorsFirst(_, _, _)
HeadersObjectCorsFirst(responseHeaders, k, headers) ==
  IF k > Len(responseHeaders)
  THEN IF MapHas(headers, "Access-Control-Allow-Origin")
       THEN headers
       ELSE MapSet(headers, "Access-Control-Allow-Origin", "*")
  ELSE HeadersObjectCorsFirst(responseHeaders, k + 1,
                     MapSet(headers, responseHeaders[k][1], responseHeaders[k][2]))

\* The headers object of the handler: recorded headers in order, then the CORS header.
RECURSIVE HeadersObject(_, _, _)
HeadersObject(responseHeaders, k, headers) ==
  IF k > Len(responseHeaders)
  THEN MapSet(headers, "Access-Control-Allow-Origin", "*")
  ELSE HeadersObject(responseHeaders, k + 1,
                     MapSet(headers, responseHeaders[k][1], responseHeaders[k][2]))

\* An unknown(route) that logs without consulting the seen-set.
unknownAlwaysLogs(r, k) ==
  [r EXCEPT !.log = Append(@, r.routes[k].url),
            !.unknownUrls = @ \cup {r.routes[k].url},
            !.routes[k].nAbort = @ + 1,
            !.intercepted = Append(@, k)]

\* unknown(route) for the k-th route of replay r.
unknown(r, k) ==
  LET url == r.routes[k].url
  IN [r EXCEPT !.log = IF url \in r.unknownUrls THEN @ ELSE Append(@, url),
               !.unknownUrls = @ \cup {url},
               !.routes[k].nAbort = @ + 1,
               !.intercepted = Append(@, k)]

\* intercepted.push(route.fulfill(response)) for the k-th route of replay r.
fulfill(r, k, response) ==
  [r EXCEPT !.routes[k].nFulfill = @ + 1,
            !.routes[k].response = response,
            !.intercepted = Append(@, k)]

\* The route handler up to its await, for a request that has just been appended to
\* r.routes as its last element.
RouteHandler(r, byUrl) ==
  LET k == Len(r.routes)
      url == r.routes[k].url
      frameSrc == r.routes[k].frameSrc
  IN IF MapHas(r.frameBySrc, url)
     THEN fulfill(r, k, [contentType |-> "text/html", body |-> r.frameBySrc[url].html,
                         headers |-> EmptyMap])
     ELSE IF ~MapHas(r.frameBySrc, frameSrc)
          THEN unknown(r, k)
     ELSE LET frameSnapshot == r.frameBySrc[frameSrc]
              candidates == Candidates(byUrl, url)
              resource == MatchLoop(candidates, 1, r.contextId, frameSnapshot.frameId, 0)
          IN IF resource = 0
             THEN unknown(r, k)
             ELSE [r EXCEPT !.routes[k].reading = TRUE,
                            !.routes[k].nReads = @ + 1,
                            !.routes[k].resource = candidates[resource],
                            !.routes[k].sha1 =
                               ReadSha1(candidates[resource], OverrideSha1(frameSnapshot, url))]

\* The handler after _readResource returned resourceData.
RouteHandlerResume(r, k) ==
  LET event == r.routes[k].resource
      resumed == [r EXCEPT !.routes[k].reading = FALSE]
  IN fulfill(resumed, k, [contentType |-> event.contentType,
                          body |-> r.routes[k].sha1,
                          headers |-> HeadersObject(event.responseHeaders, 1, EmptyMap)])

\* A _readResource that reads the file again when the read fails.
RouteHandlerReadFailedRetry(r, k) == [r EXCEPT !.routes[k].nReads = @ + 1]

\* A handler that returns on a failed read without ending the request.
RouteHandlerReadFailedPending(r, k) == [r EXCEPT !.routes[k].reading = FALSE]

\* The handler after _readResource returned undefined.
RouteHandlerReadFailed(r, k) == unknown([r EXCEPT !.routes[k].reading = FALSE], k)

\* A _renderSnapshot that navigates before it installs the interceptor.
RenderSnapshotOrderGotoFirst == << "goto", "route", "attach", "join" >>

\* The awaits of _renderSnapshot, in program order.
RenderSnapshotOrder == << "route", "goto", "attach", "join" >>

\* ------------------------------------------------------------------ attach

\* An attach that never moves on to the next child frame.
RECURSIVE RunAttachStuck(_, _, _)
RunAttachStuck(stack, frames, live) ==
  IF stack = << >> THEN << >>
  ELSE LET n == Len(stack)
           top == stack[n]
           children == live[top.frame].childFrames
       IN IF top.child > Len(children)
          THEN IF n = 1 THEN << >>
               ELSE RunAttachStuck([SubSeq(stack, 1, n - 1) EXCEPT ![n - 1].data = @ + 1],
                              frames, live)
          ELSE IF top.data = 0 THEN stack
          ELSE IF top.data > Len(frames)
               THEN RunAttachStuck([stack EXCEPT ![n] = [frame |-> top.frame,
                                                    child |-> top.child, data |-> 0]],
                              frames, live)
          ELSE IF EndsWith(live[children[top.child]].url, frames[top.data].url)
               THEN RunAttachStuck(Append(stack, [frame |-> children[top.child],
                                             child |-> 1, data |-> 0]),
                              frames, live)
               ELSE RunAttachStuck([stack EXCEPT ![n].data = @ + 1], frames, live)

\* _postprocessSnapshotFrame as a stack of calls [frame, child, data]: the call for
\* live frame `frame` is at its child number `child`, and at snapshot frame number
\* `data` of the inner loop (0 while it awaits the child's waitForLoadState).
\* Runs the calls up to the next waitForLoadState; << >> when the outermost returned.
RECURSIVE RunAttach(_, _, _)
RunAttach(stack, frames, live) ==
  IF stack = << >> THEN << >>
  ELSE LET n == Len(stack)
           top == stack[n]
           children == live[top.frame].childFrames
       IN IF top.child > Len(children)
          THEN IF n = 1 THEN << >>
               ELSE RunAttach([SubSeq(stack, 1, n - 1) EXCEPT ![n - 1].data = @ + 1],
                              frames, live)
          ELSE IF top.data = 0 THEN stack
          ELSE IF top.data > Len(frames)
               THEN RunAttach([stack EXCEPT ![n] = [frame |-> top.frame,
                                                    child |-> top.child + 1, data |-> 0]],
                              frames, live)
          ELSE IF EndsWith(live[children[top.child]].url, frames[top.data].url)
               THEN RunAttach(Append(stack, [frame |-> children[top.child],
                                             child |-> 1, data |-> 0]),
                              frames, live)
               ELSE RunAttach([stack EXCEPT ![n].data = @ + 1], frames, live)

\* Position of an await in RenderSnapshotOrder.
OrderIndex(pc) == CHOOSE n \in 1..Len(RenderSnapshotOrder) : RenderSnapshotOrder[n] = pc

\* _renderSnapshot reaches the await named pc: what it calls right before suspending.
Enter(r, pc) ==
  CASE pc = "attach" ->
         [r EXCEPT !.pc = pc,
                   !.stack = RunAttach(<< [frame |-> "main", child |-> 1, data |-> 0] >>,
                                       SnapshotFile(r.snapshot).frames,
                                       LiveFrames(r.snapshot))]
    [] pc = "join" -> [r EXCEPT !.pc = pc, !.joined = r.intercepted]
    [] OTHER -> [r EXCEPT !.pc = pc]

\* The await of _renderSnapshot that r is suspended at has resolved.
Proceed(r) ==
  LET n == OrderIndex(r.pc)
  IN IF n = Len(RenderSnapshotOrder) THEN [r EXCEPT !.pc = "done"]
     ELSE Enter(r, RenderSnapshotOrder[n + 1])

\* The root document has reached the page.
RootLoaded(r) ==
  /\ r.routes # << >>
  /\ \/ r.routes[1].escaped
     \/ r.routes[1].nFulfill > 0 /\ r.routes[1].settled

\* _ensureContext up to its await (or its return), called when the snapshot was read.
EnsureContextStart(r, byId, byCtx) ==
  IF MapHas(byCtx, r.contextId)
  THEN [r EXCEPT !.context = byCtx[r.contextId], !.pc = "newPage"]
  ELSE IF ~MapHas(byId, r.contextId)
       THEN [r EXCEPT !.pc = "failed"]
       ELSE [r EXCEPT !.pc = "newContext"]

\* ------------------------------------------------------------------ binding actions

\* A click on the k-th snapshot button of the UI page of browser b, once
\* showTraceViewer has returned or failed.
Invoke(i, b, k) ==
  /\ mainPc \in {"idle", "failed"}
  /\ replay[i].pc = "idle"
  /\ \A j \in 1..(i - 1) : replay[j].pc # "idle"
  /\ MapHas(ui, b)
  /\ k \in 1..Len(ui[b].buttons)
  /\ replay' = [replay EXCEPT ![i] =
                  [IdleReplay EXCEPT !.pc = "readSnapshot", !.browser = b,
                                     !.contextId = ui[b].buttons[k].contextId,
                                     !.snapshot = ui[b].buttons[k].snapshot]]
  /\ UNCHANGED << session, contextById, liveContexts, probe >>

\* The snapshot file was read: _ensureContext is called.
SnapshotRead(i) ==
  /\ replay[i].pc = "readSnapshot"
  /\ replay' = [replay EXCEPT ![i] = EnsureContextStart(@, contextEventById, contextById)]
  /\ UNCHANGED << session, contextById, liveContexts, probe >>

\* The snapshot file could not be read: the binding call fails.
SnapshotReadFails(i) ==
  /\ replay[i].pc = "readSnapshot"
  /\ replay' = [replay EXCEPT ![i].pc = "failed"]
  /\ UNCHANGED << session, contextById, liveContexts, probe >>

\* browser.newContext resolved: the context is cached, then context.newPage is called.
NewContextResolved(i) ==
  /\ replay[i].pc = "newContext"
  /\ liveContexts' = Append(liveContexts, [browser |-> replay[i].browser,
                                           contextId |-> replay[i].contextId])
  /\ contextById' = MapSet(contextById, replay[i].contextId, Len(liveContexts) + 1)
  /\ replay' = [replay EXCEPT ![i].context = Len(liveContexts) + 1, ![i].pc = "newPage"]
  /\ UNCHANGED << session, probe >>

\* context.newPage resolved: _renderSnapshot runs up to its first await.
NewPageResolved(i) ==
  /\ replay[i].pc = "newPage"
  /\ replay' = [replay EXCEPT ![i] =
                  Enter([replay[i] EXCEPT !.frameBySrc =
                            FrameBySrc(SnapshotFile(replay[i].snapshot).frames, 1, EmptyMap)],
                        RenderSnapshotOrder[1])]
  /\ UNCHANGED << session, contextById, liveContexts, probe >>

\* page.route resolved: the interceptor is installed.
RouteResolved(i) ==
  /\ replay[i].pc = "route"
  /\ replay' = [replay EXCEPT ![i] = Proceed([@ EXCEPT !.routeInstalled = TRUE])]
  /\ UNCHANGED << session, contextById, liveContexts, probe >>

\* page.goto resolved: the root document has loaded.
GotoResolved(i) ==
  /\ replay[i].pc = "goto"
  /\ RootLoaded(replay[i])
  /\ replay' = [replay EXCEPT ![i] = Proceed(@)]
  /\ UNCHANGED << session, contextById, liveContexts, probe >>

\* childFrame.waitForLoadState resolved for the child the attach is waiting for.
WaitForLoadStateResolved(i) ==
  /\ replay[i].pc = "attach"
  /\ replay[i].stack # << >>
  /\ replay' = [replay EXCEPT ![i].stack =
                  RunAttach([replay[i].stack EXCEPT ![Len(replay[i].stack)].data = 1],
                            SnapshotFile(replay[i].snapshot).frames,
                            LiveFrames(replay[i].snapshot))]
  /\ UNCHANGED << session, contextById, liveContexts, probe >>

\* The outermost _postprocessSnapshotFrame returned.
AttachReturned(i) ==
  /\ replay[i].pc = "attach"
  /\ replay[i].stack = << >>
  /\ replay' = [replay EXCEPT ![i] = Proceed(@)]
  /\ UNCHANGED << session, contextById, liveContexts, probe >>

\* Promise.all(intercepted) resolved: every promise it was called with has resolved.
JoinResolved(i) ==
  /\ replay[i].pc = "join"
  /\ \A n \in 1..Len(replay[i].joined) : replay[i].routes[replay[i].joined[n]].settled
  /\ replay' = [replay EXCEPT ![i] = Proceed(@)]
  /\ UNCHANGED << session, contextById, liveContexts, probe >>

\* ------------------------------------------------------------------ route actions

\* The page issues a request: the handler runs if the interceptor is installed,
\* otherwise the request goes to the network.
Issue(r, url, frameSrc) ==
  LET added == [r EXCEPT !.routes = Append(@, Route(url, frameSrc))]
  IN IF r.routeInstalled
     THEN RouteHandler(added, resourceEventsByUrl)
     ELSE [added EXCEPT !.routes[Len(added.routes)].escaped = TRUE]

\* The navigation of page.goto requests the root document.
RootRequest(i) ==
  /\ replay[i].pc = "goto"
  /\ replay[i].routes = << >>
  /\ replay' = [replay EXCEPT ![i] =
                  Issue(replay[i], SnapshotFile(replay[i].snapshot).frames[1].url, uBlank)]
  /\ UNCHANGED << session, contextById, liveContexts, probe >>

\* The requests a replayed page issues besides the root document: << url, frame url >>.
RequestPool ==
  { <<uY, uRoot>>, <<uYa, uRoot>>, <<uZ, uRoot>>, <<uZ, uQ>> }

\* A frame of the loaded page requests a url.
Request(i, url, frameSrc) ==
  /\ replay[i].pc \in {"route", "goto", "attach", "join", "done"}
  /\ RootLoaded(replay[i])
  /\ Len(replay[i].routes) <= MaxRequests
  /\ replay' = [replay EXCEPT ![i] = Issue(@, url, frameSrc)]
  /\ UNCHANGED << session, contextById, liveContexts, probe >>

\* A handler that takes the served resource's list out of the url index.
ReadResolvedConsumes(i, k) ==
  /\ k \in 1..Len(replay[i].routes)
  /\ replay[i].routes[k].reading
  /\ replay' = [replay EXCEPT ![i] = RouteHandlerResume(@, k)]
  /\ resourceEventsByUrl' =
       [u \in (DOMAIN resourceEventsByUrl) \ {removeHash(replay[i].routes[k].url)} |->
          resourceEventsByUrl[u]]
  /\ UNCHANGED << traceFiles, mainPc, traces, browserNames, contextEventById, ui,
                  contextById, liveContexts, probe >>

\* fsReadFileAsync of _readResource returned the file.
ReadResolved(i, k) ==
  /\ k \in 1..Len(replay[i].routes)
  /\ replay[i].routes[k].reading
  /\ replay' = [replay EXCEPT ![i] = RouteHandlerResume(@, k)]
  /\ UNCHANGED << session, contextById, liveContexts, probe >>

\* fsReadFileAsync of _readResource failed.
ReadFailed(i, k) ==
  /\ k \in 1..Len(replay[i].routes)
  /\ replay[i].routes[k].reading
  /\ replay' = [replay EXCEPT ![i] = RouteHandlerReadFailed(@, k)]
  /\ UNCHANGED << session, contextById, liveContexts, probe >>

\* The promise of route.fulfill or route.abort resolved.
Settled(i, k) ==
  /\ k \in 1..Len(replay[i].routes)
  /\ replay[i].routes[k].nFulfill + replay[i].routes[k].nAbort > 0
  /\ ~replay[i].routes[k].settled
  /\ replay' = [replay EXCEPT ![i].routes[k].settled = TRUE]
  /\ UNCHANGED << session, contextById, liveContexts, probe >>

\* ------------------------------------------------------------------ specifications

NoProbe == [kind |-> "none", events |-> << >>, contextId |-> "", frameId |-> "",
            url |-> << >>, url2 |-> << >>, done |-> FALSE,
            key |-> << >>, list |-> << >>, result |-> 0,
            key2 |-> << >>, list2 |-> << >>, result2 |-> 0]

Init ==
  /\ traceFiles \in TraceFileLists
  /\ mainPc = "load"
  /\ traces = << >>
  /\ browserNames = << >>
  /\ resourceEventsByUrl = EmptyMap
  /\ contextEventById = EmptyMap
  /\ contextById = EmptyMap
  /\ ui = EmptyMap
  /\ liveContexts = << >>
  /\ replay = [i \in Invs |-> IdleReplay]
  /\ probe = NoProbe

MaxRoutes == MaxRequests + 1

\* showTraceViewer and one renderSnapshot binding call.
Next ==
  \/ Load
  \/ Show
  \/ \E b \in {"chromium", "firefox"}, k \in 1..3 : Invoke(1, b, k)
  \/ SnapshotRead(1)
  \/ SnapshotReadFails(1)
  \/ NewContextResolved(1)
  \/ NewPageResolved(1)
  \/ RouteResolved(1)
  \/ RootRequest(1)
  \/ GotoResolved(1)
  \/ WaitForLoadStateResolved(1)
  \/ AttachReturned(1)
  \/ JoinResolved(1)
  \/ \E q \in RequestPool : Request(1, q[1], q[2])
  \/ \E k \in 1..MaxRoutes : ReadResolved(1, k)
  \/ \E k \in 1..MaxRoutes : ReadFailed(1, k)
  \/ \E k \in 1..MaxRoutes : Settled(1, k)

Spec == Init /\ [][Next]_vars

\* showTraceViewer called with one trace file.
InitFair == Init /\ traceFiles = << "t1" >>

\* showTraceViewer with one trace file and one renderSnapshot binding call.
SpecOne == InitFair /\ [][Next]_vars

\* The awaited file reads of the route handlers return or fail.
FairSpec ==
  /\ InitFair /\ [][Next]_vars
  /\ \A k \in 1..MaxRoutes : WF_vars(ReadResolved(1, k) \/ ReadFailed(1, k))

\* showTraceViewer and concurrent renderSnapshot binding calls, on pages that request
\* nothing besides their root document.
NextCtx ==
  \/ Load
  \/ Show
  \/ \E i \in Invs, b \in {"chromium", "firefox"}, k \in 1..3 : Invoke(i, b, k)
  \/ \E i \in Invs : SnapshotRead(i)
  \/ \E i \in Invs : SnapshotReadFails(i)
  \/ \E i \in Invs : NewContextResolved(i)
  \/ \E i \in Invs : NewPageResolved(i)
  \/ \E i \in Invs : RouteResolved(i)
  \/ \E i \in Invs : RootRequest(i)
  \/ \E i \in Invs : Settled(i, 1)
  \/ \E i \in Invs : GotoResolved(i)
  \/ \E i \in Invs : WaitForLoadStateResolved(i)
  \/ \E i \in Invs : AttachReturned(i)
  \/ \E i \in Invs : JoinResolved(i)

SpecCtx == Init /\ [][NextCtx]_vars

\* ------------------------------------------------------------------ matcher probes

SeqsUpTo(S, n) == UNION { [1..k -> S] : k \in 0..n }

\* Candidate lists of one url, over two contexts and two frames.
MatchEvents ==
  { Resource(c, f, uY, "", "", NoHeaders) : c \in {"cA", "cB"}, f \in {"f1", "f2"} }

\* Loaded resource events of one context, over urls with and without a fragment.
LookupEvents ==
  { Resource("cA", f, u, "", "", NoHeaders) : f \in {"f1", "f2"}, u \in {uY, uYa, uRel} }

LookupUrls == {uY, uYa, uYb, uYH, uRel, uRelB}

MatchProbes ==
  { [NoProbe EXCEPT !.kind = "match", !.events = e, !.contextId = c, !.frameId = f] :
      e \in SeqsUpTo(MatchEvents, MaxCand), c \in {"cA", "cB"}, f \in {"f1", "f2", "f3"} }

LookupProbes ==
  { [NoProbe EXCEPT !.kind = "lookup", !.events = e, !.contextId = "cA", !.frameId = "f1",
                    !.url = u[1], !.url2 = u[2]] :
      e \in SeqsUpTo(LookupEvents, MaxCand), u \in LookupUrls \X LookupUrls }

InitMatch ==
  /\ traceFiles = << >>
  /\ mainPc = "idle"
  /\ traces = << >>
  /\ browserNames = << >>
  /\ resourceEventsByUrl = EmptyMap
  /\ contextEventById = EmptyMap
  /\ contextById = EmptyMap
  /\ ui = EmptyMap
  /\ liveContexts = << >>
  /\ replay = [i \in Invs |-> IdleReplay]
  /\ probe \in MatchProbes \cup LookupProbes

\* The index load builds from the probe's events.
ProbeIndex(p) ==
  IndexEvents([browserNames |-> << >>, resourceEventsByUrl |-> EmptyMap,
               contextEventById |-> EmptyMap], p.events, 1).resourceEventsByUrl

\* The matching loop on the probe's candidate list.
ProbeMatch ==
  /\ probe.kind = "match"
  /\ ~probe.done
  /\ probe' = [probe EXCEPT !.done = TRUE, !.list = probe.events,
                 !.result = MatchLoop(probe.events, 1, probe.contextId, probe.frameId, 0)]
  /\ UNCHANGED << session, contextById, liveContexts, replay >>

\* The candidate lookup and the matching loop for the probe's two request urls.
ProbeLookup ==
  /\ probe.kind = "lookup"
  /\ ~probe.done
  /\ LET byUrl == ProbeIndex(probe)
         list == Candidates(byUrl, probe.url)
         list2 == Candidates(byUrl, probe.url2)
     IN probe' = [probe EXCEPT !.done = TRUE,
                    !.key = removeHash(probe.url), !.list = list,
                    !.result = MatchLoop(list, 1, probe.contextId, probe.frameId, 0),
                    !.key2 = removeHash(probe.url2), !.list2 = list2,
                    !.result2 = MatchLoop(list2, 1, probe.contextId, probe.frameId, 0)]
  /\ UNCHANGED << session, contextById, liveContexts, replay >>

NextMatch == ProbeMatch \/ ProbeLookup

SpecMatch == InitMatch /\ [][NextMatch]_vars

\* ------------------------------------------------------------------ attach

\* showTraceViewer called with the trace file of three snapshots.
InitAttach ==
  /\ traceFiles = << "t6" >>
  /\ mainPc = "load"
  /\ traces = << >>
  /\ browserNames = << >>
  /\ resourceEventsByUrl = EmptyMap
  /\ contextEventById = EmptyMap
  /\ contextById = EmptyMap
  /\ ui = EmptyMap
  /\ liveContexts = << >>
  /\ replay = [i \in Invs |-> IdleReplay]
  /\ probe = NoProbe

\* showTraceViewer and one renderSnapshot binding call, on pages that request their
\* root document and a url from a frame the snapshot does not know.
NextAttach ==
  \/ Load
  \/ Show
  \/ \E k \in 1..3 : Invoke(1, "chromium", k)
  \/ SnapshotRead(1)
  \/ SnapshotReadFails(1)
  \/ NewContextResolved(1)
  \/ NewPageResolved(1)
  \/ RouteResolved(1)
  \/ RootRequest(1)
  \/ GotoResolved(1)
  \/ WaitForLoadStateResolved(1)
  \/ AttachReturned(1)
  \/ JoinResolved(1)
  \/ Request(1, uZ, uQ)
  \/ \E k \in 1..MaxRoutes : Settled(1, k)

\* The interceptor installs, the navigation requests the root document and completes,
\* every waitForLoadState completes and every fulfill or abort promise resolves.
SpecAttach ==
  /\ InitAttach /\ [][NextAttach]_vars
  /\ WF_vars(RouteResolved(1))
  /\ WF_vars(RootRequest(1))
  /\ WF_vars(GotoResolved(1))
  /\ WF_vars(WaitForLoadStateResolved(1))
  /\ WF_vars(AttachReturned(1))
  /\ WF_vars(JoinResolved(1))
  /\ \A k \in 1..MaxRoutes : WF_vars(Settled(1, k))

\* ------------------------------------------------------------------ load and show

\* showTraceViewer called with any list of one to MaxLoads trace files.
InitLoad ==
  /\ traceFiles \in SeqsUpTo(TraceFiles, MaxLoads) \ { << >> }
  /\ mainPc = "load"
  /\ traces = << >>
  /\ browserNames = << >>
  /\ resourceEventsByUrl = EmptyMap
  /\ contextEventById = EmptyMap
  /\ contextById = EmptyMap
  /\ ui = EmptyMap
  /\ liveContexts = << >>
  /\ replay = [i \in Invs |-> IdleReplay]
  /\ probe = NoProbe

\* showTraceViewer up to the last UI page, before any snapshot is clicked.
NextLoad == Load \/ Show

SpecLoad == InitLoad /\ [][NextLoad]_vars

\* ------------------------------------------------------------------ claims

Min(S) == CHOOSE x \in S : \A y \in S : x <= y

\* The routes of the replay that have been handed to route.fulfill with a recorded
\* resource's data.
ResourceFulfilled(r) ==
  { k \in 1..Len(r.routes) : r.routes[k].nFulfill > 0 /\ r.routes[k].resource # NoResource }

\* C1: context isolation. Whenever a request of a replay for recorded context A is
\* fulfilled from (or is reading the body of) a recorded Resource, that Resource's
\* contextId is A, whatever other contexts' resources the candidate list holds.
C1_ContextIsolation ==
  \A i \in Invs : \A k \in 1..Len(replay[i].routes) :
    replay[i].routes[k].resource # NoResource
      => replay[i].routes[k].resource.contextId = replay[i].contextId

\* C1 witness: a request was fulfilled from a same-context Resource although the first
\* candidate of its url belongs to another context and has the requesting frame's id.
C1_Witness ==
  \E k \in ResourceFulfilled(replay[1]) :
    LET route == replay[1].routes[k]
        list == Candidates(resourceEventsByUrl, route.url)
    IN /\ list[1].contextId # replay[1].contextId
       /\ list[1].frameId = replay[1].frameBySrc[route.frameSrc].frameId
       /\ route.resource.contextId = replay[1].contextId

\* The candidate the frame-affinity rule names, as a position (0: NotFound).
C2_Expected(p) ==
  LET same == { k \in 1..Len(p.events) : p.events[k].contextId = p.contextId }
      hits == { k \in same : p.events[k].frameId = p.frameId }
  IN IF hits # {} THEN Min(hits) ELSE IF same # {} THEN Min(same) ELSE 0

\* C2: frame-affinity tie-break. For every candidate list, contextId and
\* preferredFrameId the matching loop returns the first same-context candidate whose
\* frameId is the preferred one if there is one, otherwise the first same-context
\* candidate, otherwise nothing.
C2_FrameAffinity ==
  (probe.kind = "match" /\ probe.done) => probe.result = C2_Expected(probe)

\* C2 witness: three same-context candidates of which only the third has the
\* preferred frame id; the third was returned.
C2_Witness ==
  /\ probe.kind = "match" /\ probe.done
  /\ Len(probe.events) = 3
  /\ \A k \in 1..3 : probe.events[k].contextId = probe.contextId
  /\ \A k \in 1..3 : (probe.events[k].frameId = probe.frameId) <=> (k = 3)
  /\ probe.result = 3

\* The routes of replay r whose request is for no frame snapshot's document, comes
\* from a frame the snapshot knows, and has an override for exactly its url.
Overridden(r) ==
  { k \in 1..Len(r.routes) :
      /\ ~r.routes[k].escaped
      /\ ~MapHas(r.frameBySrc, r.routes[k].url)
      /\ MapHas(r.frameBySrc, r.routes[k].frameSrc)
      /\ FindOverride(r.frameBySrc[r.routes[k].frameSrc].resourceOverrides,
                      r.routes[k].url) # 0 }

Ended(route) == ~route.reading /\ route.nFulfill + route.nAbort > 0

C4_RootShortCircuit ==
  \A i \in Invs : \A k \in 1..Len(replay[i].routes) :
    LET route == replay[i].routes[k]
        root == SnapshotFile(replay[i].snapshot).frames[1]
    IN (route.url = root.url /\ ~route.escaped) =>
         /\ route.nFulfill = 1 /\ route.nAbort = 0
         /\ route.resource = NoResource
         /\ route.response.contentType = "text/html"
         /\ route.response.body = root.html

\* C5: when _renderSnapshot completes, the promise of fulfill or abort of every
\* request intercepted so far by this replay has resolved.
C5_SettledAllResolved ==
  [][ \A i \in Invs :
        (replay[i].pc # "done" /\ replay'[i].pc = "done") =>
          \A k \in 1..Len(replay'[i].routes) : replay'[i].routes[k].settled ]_vars

\* C6: at most one live browser context is ever created for a recorded contextId.
C6_OneLiveContext ==
  \A j, k \in 1..Len(liveContexts) :
    j # k => liveContexts[j].contextId # liveContexts[k].contextId

\* C7: every intercepted request is ended exactly once. No request ever has more than
\* one call of fulfill and abort together, none while its handler still awaits the
\* read, and - given that the file reads return or fail - again and again every
\* request intercepted so far has exactly one such call, so that no intercepted
\* request stays pending.
C7_EndedExactlyOnce ==
  /\ [](\A k \in 1..Len(replay[1].routes) :
          /\ replay[1].routes[k].nFulfill + replay[1].routes[k].nAbort <= 1
          /\ replay[1].routes[k].reading =>
               replay[1].routes[k].nFulfill + replay[1].routes[k].nAbort = 0)
  /\ []<>(\A k \in 1..Len(replay[1].routes) :
            replay[1].routes[k].nFulfill + replay[1].routes[k].nAbort = 1)

\* C7 witness: the root document was fulfilled, a request of an unknown frame was
\* aborted, and a request with a matched resource was aborted after its read failed.
C7_Witness ==
  /\ Len(replay[1].routes) = 3
  /\ replay[1].routes[1].nFulfill = 1
  /\ \E k \in 2..3 : /\ ~MapHas(replay[1].frameBySrc, replay[1].routes[k].frameSrc)
                     /\ replay[1].routes[k].nAbort = 1
  /\ \E k \in 2..3 : /\ replay[1].routes[k].resource # NoResource
                     /\ ~replay[1].routes[k].reading
                     /\ replay[1].routes[k].nAbort = 1

Count(seq, x) == Cardinality({ n \in 1..Len(seq) : seq[n] = x })

\* C8: within one replay the 'unknown url' warning appears exactly once for every url
\* of an aborted request and for no other url, under every interleaving of the
\* handlers; and every request the handler finished without fulfilling is aborted.
C8_LogOnce ==
  \A i \in Invs :
    /\ \A k \in 1..Len(replay[i].routes) :
         Count(replay[i].log, replay[i].routes[k].url) =
           IF \E j \in 1..Len(replay[i].routes) :
                /\ replay[i].routes[j].url = replay[i].routes[k].url
                /\ replay[i].routes[j].nAbort > 0
           THEN 1 ELSE 0
    /\ \A n \in 1..Len(replay[i].log) :
         \E k \in 1..Len(replay[i].routes) :
           replay[i].routes[k].url = replay[i].log[n] /\ replay[i].routes[k].nAbort > 0
    /\ \A k \in 1..Len(replay[i].routes) :
         (~replay[i].routes[k].reading /\ replay[i].routes[k].nFulfill = 0)
           => replay[i].routes[k].nAbort = 1

\* C8 witness: two requests for one url were aborted, one of them after a failed
\* read, and the url was logged once.
C8_Witness ==
  \E j, k \in 1..Len(replay[1].routes) :
    /\ j # k
    /\ replay[1].routes[j].url = replay[1].routes[k].url
    /\ replay[1].routes[j].nAbort = 1 /\ replay[1].routes[k].nAbort = 1
    /\ replay[1].routes[k].resource # NoResource
    /\ Count(replay[1].log, replay[1].routes[k].url) = 1

\* C9: phase order. Navigation starts only with the interceptor installed, so no
\* request is issued un-intercepted, and child-frame attachment has begun only if the
\* root document was fulfilled and that fulfilment resolved.
C9_PhaseOrder ==
  \A i \in Invs :
    /\ replay[i].pc = "goto" => replay[i].routeInstalled
    /\ replay[i].routes # << >> => replay[i].routeInstalled
    /\ \A k \in 1..Len(replay[i].routes) : ~replay[i].routes[k].escaped
    /\ replay[i].pc \in {"attach", "join", "done"} =>
         /\ replay[i].routes # << >>
         /\ replay[i].routes[1].nFulfill = 1
         /\ replay[i].routes[1].settled

\* C9 witness: the attach is waiting for a child frame, after the root was served.
C9_Witness ==
  /\ replay[1].pc = "attach"
  /\ replay[1].stack # << >>
  /\ replay[1].routes[1].nFulfill = 1
  /\ replay[1].routes[1].settled

\* Two strings that differ at most in what follows their first "#".
DiffersOnlyInFragment(url, url2) == StripFragment(url) = StripFragment(url2)

\* C10: hash-insensitive lookup. Two request urls that parse and differ only in their
\* fragment consult the same candidate list and get the same match; a url that does
\* not parse is looked up as the raw string.
C10_HashInsensitive ==
  (probe.kind = "lookup" /\ probe.done) =>
    /\ (Parses(probe.url) /\ DiffersOnlyInFragment(probe.url, probe.url2))
         => (probe.list = probe.list2 /\ probe.result = probe.result2)
    /\ ~Parses(probe.url)
         => /\ probe.key = probe.url
            /\ probe.list = IF MapHas(ProbeIndex(probe), probe.url)
                            THEN ProbeIndex(probe)[probe.url] ELSE << >>

\* C10 witness: two urls with different fragments were looked up and both got the
\* candidate recorded without a fragment.
C10_Witness ==
  /\ probe.kind = "lookup" /\ probe.done
  /\ probe.url = uYa /\ probe.url2 = uYb
  /\ probe.result > 0 /\ probe.result2 = probe.result
  /\ probe.list[probe.result].url = uY

\* C11: orphaned events are skipped, not fatal. Every show of a loaded browser name
\* completes, whatever Action, PageCreated or Resource events of the loaded traces
\* name a context no loaded ContextCreated event declares.
C11_OrphansSkipped ==
  \A b \in DOMAIN ui :
    (\E t \in 1..Len(traces) : \E e \in 1..Len(traces[t].events) :
       /\ traces[t].events[e].type \in {"action", "page-created"}
       /\ ~MapHas(contextEventById, traces[t].events[e].contextId))
    => ~ui[b].crashed

\* C12: a failed load is atomic. A load that fails on a malformed line leaves the
\* trace list, the browser-name set, the context table and the resource table as they
\* were before the call: no line of the failing file is indexed.
C12_FailedLoadAtomic ==
  [][(mainPc = "load" /\ mainPc' = "failed")
       => /\ traces' = traces
          /\ browserNames' = browserNames
          /\ contextEventById' = contextEventById
          /\ resourceEventsByUrl' = resourceEventsByUrl]_vars

\* A load has failed on a file whose malformed line follows a well-formed one, after
\* an earlier file was loaded and indexed.
C12_Witness ==
  /\ mainPc = "failed"
  /\ traceFiles # << >>
  /\ Head(traceFiles) = "t3"
  /\ FileLines("t3")[1].kind = "json"
  /\ traces # << >>
  /\ resourceEventsByUrl # EmptyMap

\* The events of a file's lines, one per non-blank line, in file order.
RECURSIVE EventsInOrder(_)
EventsInOrder(lines) ==
  IF lines = << >> THEN << >>
  ELSE IF Head(lines).kind = "blank" THEN EventsInOrder(Tail(lines))
  ELSE << Head(lines).event >> \o EventsInOrder(Tail(lines))

\* C13: load preserves count and order. A load that succeeds appends exactly one
\* entry to the trace list, named after its file and holding one event per non-blank
\* line in file order; blank lines contribute nothing, and a file loaded twice gives
\* two entries.
C13_LoadAppendsOne ==
  [][(mainPc = "load" /\ mainPc' # "failed")
       => traces' = Append(traces,
                           [traceFile |-> Head(traceFiles),
                            events |-> EventsInOrder(FileLines(Head(traceFiles)))])]_vars

\* The same file, which has blank lines between and after its events, is loaded twice.
C13_Witness ==
  /\ Len(traces) = 2
  /\ traces[1].traceFile = "t1"
  /\ traces[2] = traces[1]
  /\ Len(traces[1].events) = 9
  /\ Len(FileLines("t1")) = 11

\* The routes of replay r whose matched resource's file could not be read.
ReadFailedRoutes(r) ==
  { k \in 1..Len(r.routes) :
      /\ r.routes[k].resource # NoResource
      /\ ~r.routes[k].reading
      /\ r.routes[k].nFulfill = 0 }

\* C14: a blob read failure is an abort, never a crash or a retry. A request whose
\* matched resource's file cannot be read is aborted once and never fulfilled, its url
\* is in the seen-set and logged exactly once, the file was read exactly once, and the
\* replay has not failed; no handler ever reads its file more than once.
C14_ReadFailureAborts ==
  \A i \in Invs :
    /\ \A k \in 1..Len(replay[i].routes) : replay[i].routes[k].nReads <= 1
    /\ \A k \in ReadFailedRoutes(replay[i]) :
         /\ replay[i].routes[k].nReads = 1
         /\ replay[i].routes[k].nAbort = 1
         /\ replay[i].routes[k].url \in replay[i].unknownUrls
         /\ Count(replay[i].log, replay[i].routes[k].url) = 1
         /\ replay[i].pc \in {"route", "goto", "attach", "join", "done"}

\* A replay has settled in which one request's read failed and was aborted and
\* another request was served from its recorded resource.
C14_Witness ==
  /\ replay[1].pc = "done"
  /\ ReadFailedRoutes(replay[1]) # {}
  /\ \E k \in ResourceFulfilled(replay[1]) :
       /\ replay[1].routes[k].settled
       /\ replay[1].routes[k].response.body = replay[1].routes[k].sha1
  /\ \A k \in ReadFailedRoutes(replay[1]) : replay[1].routes[k].settled

\* The events of all loaded traces, in load order.
RECURSIVE LoadedEvents(_)
LoadedEvents(ts) ==
  IF ts = << >> THEN << >> ELSE Head(ts).events \o LoadedEvents(Tail(ts))

\* The loaded Action events of context c, in load order.
ActionsOf(c) ==
  SelectSeq(LoadedEvents(traces), LAMBDA e : e.type = "action" /\ e.contextId = c)

\* Every loaded Action event names a declared context, so the tree builder completes.
NoOrphanAction ==
  \A n \in 1..Len(LoadedEvents(traces)) :
    LoadedEvents(traces)[n].type = "action"
      => MapHas(contextEventById, LoadedEvents(traces)[n].contextId)

\* C15: the tree builder's browser filter. The context/action mapping built for a
\* browser name has an entry exactly for the contexts declared with that browser name
\* that have Action events, and each entry lists exactly that context's Action events
\* in load order; contexts of another browser have no entry.
C15_BrowserFilter ==
  \A b \in DOMAIN ui :
    NoOrphanAction =>
      /\ DOMAIN ui[b].data =
           { c \in DOMAIN contextEventById :
               contextEventById[c].browserName = b /\ ActionsOf(c) # << >> }
      /\ \A c \in DOMAIN ui[b].data : ui[b].data[c].actions = ActionsOf(c)

\* Two browsers were shown over traces holding actions of both, interleaved.
C15_Witness ==
  /\ DOMAIN ui = {"chromium", "firefox"}
  /\ NoOrphanAction
  /\ DOMAIN ui["chromium"].data = {"cA", "cC", "cE"}
  /\ DOMAIN ui["firefox"].data = {"cD"}
  /\ Len(ui["chromium"].data["cC"].actions) = 2

\* Position in LoadedEvents of the first Action event of context c.
FirstAction(c) ==
  Min({ n \in 1..Len(LoadedEvents(traces)) :
          /\ LoadedEvents(traces)[n].type = "action"
          /\ LoadedEvents(traces)[n].contextId = c })

\* The first loaded trace that holds an Action event of context c.
FirstTrace(c) ==
  Min({ t \in 1..Len(traces) :
          \E e \in 1..Len(traces[t].events) :
            /\ traces[t].events[e].type = "action"
            /\ traces[t].events[e].contextId = c })

\* C16: context labels are sequential within each trace. In the mapping built for a
\* browser name, each entry is labelled with the trace file its context's first action
\* was met in, and the numbers given under one trace file are 1, 2, 3, ... without
\* gaps or repeats, in the order the contexts were first met; contexts of other
\* browsers take no number and the numbering starts at 1 in every trace file.
C16_LabelsSequential ==
  \A b \in DOMAIN ui :
    NoOrphanAction =>
      LET data == ui[b].data
          Of(f) == { c \in DOMAIN data : data[c].label[1] = f }
      IN /\ \A c \in DOMAIN data : data[c].label[1] = traces[FirstTrace(c)].traceFile
         /\ \A f \in TraceFiles :
              { data[c].label[2] : c \in Of(f) } = 1..Cardinality(Of(f))
         /\ \A c1, c2 \in DOMAIN data :
              (data[c1].label[1] = data[c2].label[1] /\ data[c1].label[2] < data[c2].label[2])
                => FirstAction(c1) < FirstAction(c2)

\* Two trace files were shown, the second holding two chromium contexts whose first
\* actions follow an action of a firefox context.
C16_Witness ==
  /\ DOMAIN ui = {"chromium", "firefox"}
  /\ NoOrphanAction
  /\ DOMAIN ui["chromium"].data = {"cA", "cC", "cE"}
  /\ ui["chromium"].data["cA"].label = << "t1", 1 >>
  /\ ui["chromium"].data["cC"].label = << "t5", 1 >>
  /\ ui["chromium"].data["cE"].label = << "t5", 2 >>
  /\ ui["firefox"].data["cD"].label = << "t5", 1 >>
  /\ FirstAction("cD") < FirstAction("cC")

\* C17: index keys are normalized. Every key of the url index is a fragment-stripped
\* url, and every loaded Resource event, whatever url it was recorded with, is in the
\* candidate list a lookup of its url consults.
C17_KeysNormalized ==
  /\ \A key \in DOMAIN resourceEventsByUrl : removeHash(key) = key
  /\ \A n \in 1..Len(LoadedEvents(traces)) :
       LET event == LoadedEvents(traces)[n]
           list == Candidates(resourceEventsByUrl, event.url)
       IN event.type = "resource" => \E k \in 1..Len(list) : list[k] = event

\* The loaded events of one type, as a set.
LoadedOfType(type) ==
  { LoadedEvents(traces)[n] : n \in { m \in 1..Len(LoadedEvents(traces)) :
                                        LoadedEvents(traces)[m].type = type } }

\* C18: the index is the ordered union of all loads. Each list of the url index holds
\* exactly the loaded Resource events recorded with that url, one entry per occurrence,
\* in load order (sources in the order loaded, file order within a source); the
\* context table has an entry for every ContextCreated event loaded and the
\* browser-name set holds every browser name of one, once.
C18_OrderedUnion ==
  /\ DOMAIN resourceEventsByUrl = { event.url : event \in LoadedOfType("resource") }
  /\ \A key \in DOMAIN resourceEventsByUrl :
       resourceEventsByUrl[key] =
         SelectSeq(LoadedEvents(traces), LAMBDA e : e.type = "resource" /\ e.url = key)
  /\ DOMAIN contextEventById = { event.contextId : event \in LoadedOfType("context-created") }
  /\ \A c \in DOMAIN contextEventById :
       /\ contextEventById[c] \in LoadedOfType("context-created")
       /\ contextEventById[c].contextId = c
  /\ { browserNames[n] : n \in 1..Len(browserNames) } =
       { event.browserName : event \in LoadedOfType("context-created") }
  /\ \A n, m \in 1..Len(browserNames) : browserNames[n] = browserNames[m] => n = m

\* One file was loaded, then another with a resource of the same url, then the first
\* again: the list of that url holds all nine occurrences, in load order.
C18_Witness ==
  /\ Len(traces) = 3
  /\ traces[1].traceFile = "t1" /\ traces[2].traceFile = "t5" /\ traces[3].traceFile = "t1"
  /\ Len(resourceEventsByUrl[uY]) = 9
  /\ resourceEventsByUrl[uY][5].sha1 = "h7"
  /\ resourceEventsByUrl[uY][9] = resourceEventsByUrl[uY][4]
  /\ browserNames = << "chromium", "firefox" >>

\* C19: child-frame attachment picks one snapshot. Every recursive call of the attach
\* in progress was made for the first frame snapshot, in snapshot order, whose url is
\* a suffix of its live child frame's url, so a child's subtree is entered once.
C19_AttachesFirstOnly ==
  \A i \in Invs :
    \A n \in 1..(Len(replay[i].stack) - 1) :
      LET frames == SnapshotFile(replay[i].snapshot).frames
          live == LiveFrames(replay[i].snapshot)
          caller == replay[i].stack[n]
          childFrame == live[caller.frame].childFrames[caller.child]
      IN caller.data = Min({ d \in 1..Len(frames) :
                               EndsWith(live[childFrame].url, frames[d].url) })

\* C20: the replay eventually settles unless a frame load hangs. Once page.route has
\* been called, the binding call reaches the end of _renderSnapshot, whichever
\* snapshot is replayed.
C20_ReplaySettles ==
  (replay[1].pc = "route") ~> (replay[1].pc = "done")

\* The replay of the snapshot whose second frame snapshot has the empty url, a suffix
\* of every live frame's url, has settled with an aborted request.
C20_Witness ==
  /\ replay[1].pc = "done"
  /\ replay[1].snapshot = "s3"
  /\ SnapshotFile("s3").frames[2].url = << >>
  /\ \A f \in DOMAIN LiveFrames("s3") : EndsWith(LiveFrames("s3")[f].url, << >>)
  /\ Len(replay[1].routes) > 1

\* C21: a replay does not touch loaded data. Every step of a binding call leaves the
\* trace list with its events, the url index, the context table, the browser-name set
\* and the UI data as they were; of the session's state it may only add one entry to
\* the live-context cache, keeping the entries the cache has.
C21_ReplayFrame ==
  [][replay' # replay
       => /\ UNCHANGED << traceFiles, traces, browserNames, resourceEventsByUrl,
                          contextEventById, ui >>
          /\ \A c \in DOMAIN contextById :
               MapHas(contextById', c) /\ contextById'[c] = contextById[c]
          /\ Cardinality((DOMAIN contextById') \ (DOMAIN contextById)) <= 1]_vars

\* A replay has ended after one request was fulfilled from a loaded resource and
\* another was aborted, with its live context cached.
C21_Witness ==
  /\ replay[1].pc = "done"
  /\ MapHas(contextById, replay[1].contextId)
  /\ ResourceFulfilled(replay[1]) # {}
  /\ \E k \in 1..Len(replay[1].routes) : replay[1].routes[k].nAbort = 1
  /\ traces # << >>
  /\ resourceEventsByUrl # EmptyMap

\* The hash of the first override the route's frame snapshot has for exactly the
\* route's url, "" when it has none.
OverrideHashOf(r, route) ==
  LET overrides == r.frameBySrc[route.frameSrc].resourceOverrides
      hits == { n \in 1..Len(overrides) : overrides[n].url = route.url }
  IN IF hits = {} THEN "none" ELSE overrides[Min(hits)].sha1

\* The response carries the recorded content type, the recorded header names plus the
\* CORS header, a recorded value under each recorded name (the last one recorded when
\* requireLast), and '*' under the CORS header.
RecordedHead(route, requireLast) ==
  LET recorded == route.resource.responseHeaders
      cors == "Access-Control-Allow-Origin"
      At(name) == { n \in 1..Len(recorded) : recorded[n][1] = name }
  IN /\ route.response.contentType = route.resource.contentType
     /\ DOMAIN route.response.headers =
          { recorded[n][1] : n \in 1..Len(recorded) } \cup {cors}
     /\ route.response.headers[cors] = "*"
     /\ \A name \in (DOMAIN route.response.headers) \ {cors} :
          \E n \in At(name) :
            /\ route.response.headers[name] = recorded[n][2]
            /\ requireLast => \A m \in At(name) : m <= n

C23_RecordedBrowser ==
  \A i \in Invs :
    replay[i].context # 0 =>
      /\ liveContexts[replay[i].context].contextId = replay[i].contextId
      /\ liveContexts[replay[i].context].browser =
           contextEventById[replay[i].contextId].browserName
      /\ liveContexts[replay[i].context].browser = replay[i].browser

====
